---------------------------- MODULE Spec2Model ----------------------------
(***************************************************************************)
(* Borrowing Optimiser: column inference, normalisation, derivation,       *)
(* ranking and greedy packing of loan draw lines.                          *)
(*                                                                         *)
(* The repository holds two programs over the same pipeline:               *)
(*   "py"  src/apptest.py  the Streamlit script (pandas)                   *)
(*   "js"  src/app.py      the React component (pickCol, sortRows, ...)    *)
(* Both are modelled; the variable `variant` says which one is running.    *)
(*                                                                         *)
(* Representation.  A text (a column header) is the tuple of its           *)
(* characters.  A number is an integer counting 1/Scale units, so that a   *)
(* fractional tenor such as 7.5 days is a value.  A float that is NaN or   *)
(* Infinity is a tagged record (Num, NaN, Inf below).  An instant is a     *)
(* count of ticks, TicksPerDay ticks to the day, day 0 starting at tick 0. *)
(***************************************************************************)
EXTENDS Integers, Sequences, FiniteSets, TLC

\* ------------------------------------------------------------------ bounds
MaxRows     == 2   \* rows of an uploaded table (ranking)
MaxPackRows == 3   \* rows of an uploaded table (packing walk)
MaxCols     == 3   \* columns of an uploaded table (header slice)
MaxWindow   == 1   \* near-availability window, in days (the widget allows 1..30)
MaxTarget   == 3   \* draw target, in whole amount units
MaxAmount   == 2   \* a line's amount, in whole amount units
Scale       == 2   \* a number n stands for n / Scale
TicksPerDay == 2   \* an instant t stands for day t \div TicksPerDay
MaxMismatch == 1   \* size of a bucket's mismatch figure, either sign
MaxWeight   == 1   \* ALM priority weight (the slider allows 0..10)

\* ----------------------------------------------------------- float values
Num(n) == [k |-> "num", n |-> n]
NaN    == [k |-> "nan", n |-> 0]
Inf    == [k |-> "inf", n |-> 0]      \* Number.POSITIVE_INFINITY
IsNum(x) == x.k = "num"               \* Number.isFinite / pd.notna on a finite value

Min2(a, b) == IF a <= b THEN a ELSE b
Max2(a, b) == IF a >= b THEN a ELSE b
Sign(n)    == IF n < 0 THEN -1 ELSE IF n > 0 THEN 1 ELSE 0

Range(s) == { s[i] : i \in DOMAIN s }

RECURSIVE SumSeq(_)
SumSeq(s) == IF s = << >> THEN 0 ELSE Head(s) + SumSeq(Tail(s))

\* ------------------------------------------------------------------- text
\* str.lower() / String.prototype.toLowerCase(), per character
LowerMap ==
    ("A" :> "a") @@ ("B" :> "b") @@ ("C" :> "c") @@ ("D" :> "d") @@ ("E" :> "e")
    @@ ("F" :> "f") @@ ("G" :> "g") @@ ("H" :> "h") @@ ("I" :> "i") @@ ("J" :> "j")
    @@ ("K" :> "k") @@ ("L" :> "l") @@ ("M" :> "m") @@ ("N" :> "n") @@ ("O" :> "o")
    @@ ("P" :> "p") @@ ("Q" :> "q") @@ ("R" :> "r") @@ ("S" :> "s") @@ ("T" :> "t")
    @@ ("U" :> "u") @@ ("V" :> "v") @@ ("W" :> "w") @@ ("X" :> "x") @@ ("Y" :> "y")
    @@ ("Z" :> "z")

LowerChar(c) == IF c \in DOMAIN LowerMap THEN LowerMap[c] ELSE c

Lower(s) == [i \in DOMAIN s |-> LowerChar(s[i])]

\* `cand in c` (Python) / c.includes(cand) (JS): cand occurs in c as a substring
Contains(c, cand) ==
    \E n \in 0..(Len(c) - Len(cand)) : \A m \in 1..Len(cand) : c[n + m] = cand[m]

\* the value standing for None / null where a column name is expected
NoCol == << >>

\* src/apptest.py:23-27, src/app.py:12-28 (the two lists are equal)
DATE_CANDIDATES ==
    << <<"D","a","t","e"," ","o","f"," ","a","v","a","i","l","a","b","i","l","i","t","y">>,
       <<"A","v","a","i","l","a","b","i","l","i","t","y"," ","D","a","t","e">>,
       <<"A","v","a","i","l","a","b","l","e"," ","O","n">>,
       <<"A","v","a","i","l","a","b","i","l","i","t","y">>,
       <<"D","a","t","e">> >>
ROI_CANDIDATES ==
    << <<"R","O","I">>,
       <<"I","n","t","e","r","e","s","t">>,
       <<"R","a","t","e">>,
       <<"R","a","t","e"," ","o","f"," ","I","n","t","e","r","e","s","t">> >>
AMOUNT_CANDIDATES ==
    << <<"A","m","o","u","n","t"," ","t","o"," ","b","e"," ","d","r","a","w","n">>,
       <<"A","m","o","u","n","t">>,
       <<"D","r","a","w"," ","A","m","o","u","n","t">>,
       <<"A","v","a","i","l","a","b","l","e"," ","A","m","o","u","n","t">>,
       <<"A","m","t">> >>
TENOR_CANDIDATES ==
    << <<"T","e","n","o","r">>,
       <<"T","e","n","u","r","e">>,
       <<"T","e","r","m">>,
       <<"D","a","y","s">> >>
TYPE_CANDIDATES ==
    << <<"T","y","p","e">>,
       <<"L","o","a","n"," ","T","y","p","e">> >>

\* ------------------------------------------------------- schema resolver
\* The dict {c.lower(): c for c in df.columns} / Object.fromEntries(cols.map(...))
\* over the lower-cased names lcs: its keys in insertion order (a key keeps the
\* place of its first insertion) ...
DictKeys(lcs) ==
    LET firsts == { n \in DOMAIN lcs : \A m \in 1..(n - 1) : lcs[m] # lcs[n] }
        nth(k) == CHOOSE n \in firsts : Cardinality({ m \in firsts : m < n }) = k - 1
    IN  [ k \in 1..Cardinality(firsts) |-> lcs[nth(k)] ]

\* ... and its value under a key (the last column written under it wins)
DictGet(cs, lcs, key) ==
    cs[CHOOSE n \in DOMAIN cs :
          /\ lcs[n] = key
          /\ \A m \in (n + 1)..Len(cs) : lcs[m] # key]

FirstIndex(S) == CHOOSE n \in S : \A m \in S : n <= m

\* smart_pick_col in one phase: the first candidate that a column holds or equals
smart_pick_col_onephase(cs, candidates) ==
    LET lcs   == [ n \in DOMAIN cs |-> Lower(cs[n]) ]
        cands == [ ci \in DOMAIN candidates |-> Lower(candidates[ci]) ]
        keys  == DictKeys(lcs)
        fuzzy == { ci \in DOMAIN cands :
                     \E ki \in DOMAIN keys : Contains(keys[ki], cands[ci]) }
    IN  IF fuzzy # {}
        THEN LET cand == cands[FirstIndex(fuzzy)]
                 ki   == FirstIndex({ k \in DOMAIN keys : Contains(keys[k], cand) })
             IN  DictGet(cs, lcs, keys[ki])
        ELSE NoCol

\* src/apptest.py:54-64
smart_pick_col(cs, candidates) ==
    LET lcs   == [ n \in DOMAIN cs |-> Lower(cs[n]) ]
        cands == [ ci \in DOMAIN candidates |-> Lower(candidates[ci]) ]
        keys  == DictKeys(lcs)
        exact == { ci \in DOMAIN cands : \E ki \in DOMAIN keys : cands[ci] = keys[ki] }
        fuzzy == { ci \in DOMAIN cands :
                     \E ki \in DOMAIN keys : Contains(keys[ki], cands[ci]) }
    IN  IF exact # {}
        THEN LET cand == cands[FirstIndex(exact)]
                 ki   == FirstIndex({ k \in DOMAIN keys : cand = keys[k] })
             IN  DictGet(cs, lcs, keys[ki])
        ELSE IF fuzzy # {}
        THEN LET cand == cands[FirstIndex(fuzzy)]
                 ki   == FirstIndex({ k \in DOMAIN keys : Contains(keys[k], cand) })
             IN  DictGet(cs, lcs, keys[ki])
        ELSE NoCol

\* src/app.py:50-62
pickCol(cs, candidates) ==
    LET lcs   == [ n \in DOMAIN cs |-> Lower(cs[n]) ]
        cands == [ ci \in DOMAIN candidates |-> Lower(candidates[ci]) ]
        lower == DictKeys(lcs)
        exact == { ci \in DOMAIN cands : cands[ci] \in Range(lower) }
        sub   == { ci \in DOMAIN cands :
                     \E ki \in DOMAIN lower : Contains(lower[ki], cands[ci]) }
    IN  IF exact # {}
        THEN DictGet(cs, lcs, cands[FirstIndex(exact)])
        ELSE IF sub # {}
        THEN LET cand == cands[FirstIndex(sub)]
                 ki   == FirstIndex({ k \in DOMAIN lower : Contains(lower[k], cand) })
             IN  DictGet(cs, lcs, lower[ki])
        ELSE NoCol

\* ------------------------------------------------------------ table cells
\* A cell of the uploaded table, by what the coercions make of it:
\*   blank   an empty cell ("" from sheet_to_json defval, NaN from read_excel)
\*   num     a number, or the text of one ("5", "1,000")
\*   pct     a number with a percent sign ("5%")
\*   cur     a number with a currency token ("INR 5")
\*   space   text of white space only (" ")
\*   text    any other text; s is the text where the type vocabulary matters
\*   date    a date value or the text of one; n is its instant in ticks
Cell(k, n, s) == [k |-> k, n |-> n, s |-> s]
Blank       == Cell("blank", 0, "")
NumCell(n)  == Cell("num", n, "")
PctCell(n)  == Cell("pct", n, "")
CurCell(n)  == Cell("cur", n, "")
SpaceCell   == Cell("space", 0, " ")
TextCell(s) == Cell("text", 0, s)
DateCell(t) == Cell("date", t, "")

\* A row of the upload is the tuple of its cells, in the order of the columns cs.
\* r[col] / raw[col]: the cell of row r under the column named col; r[undefined]
\* is undefined in JS, which every coercion treats as it treats an empty cell.
At(r, cs, col) ==
    LET hits == { n \in DOMAIN cs : cs[n] = col }
    IN  IF hits = {} THEN Blank ELSE r[CHOOSE n \in hits : TRUE]

\* src/app.py:64-69
coerceNumber(x) ==
    CASE x.k = "blank" -> NaN              \* x == null || x === ""
      [] x.k = "num"   -> Num(x.n)
      [] x.k = "pct"   -> Num(x.n)         \* "%" is stripped
      [] x.k = "cur"   -> NaN              \* Number("INR5")
      [] x.k = "space" -> Num(0)           \* Number("") is 0, which is finite
      [] x.k = "text"  -> NaN
      [] x.k = "date"  -> NaN

\* src/apptest.py:88-96
_to_number(x) ==
    CASE x.k = "blank" -> NaN              \* to_numeric("nan")
      [] x.k = "num"   -> Num(x.n)
      [] x.k = "pct"   -> Num(x.n)
      [] x.k = "cur"   -> Num(x.n)         \* "INR", "Rs" and the rupee sign are stripped
      [] x.k = "space" -> NaN              \* strip() leaves ""
      [] x.k = "text"  -> NaN              \* errors='coerce'
      [] x.k = "date"  -> NaN

\* src/app.py:71-80; null is NaN here.  Numbers and number-like text in a date
\* column are outside the model (new Date(n) and the legacy date parser).
coerceDate(x) ==
    CASE x.k = "blank" -> NaN
      [] x.k = "space" -> NaN
      [] x.k = "text"  -> NaN
      [] x.k = "date"  -> Num(x.n)

\* src/apptest.py:66-75; NaT is NaN here
coerce_date(x) ==
    CASE x.k = "blank" -> NaN
      [] x.k = "space" -> NaN
      [] x.k = "text"  -> NaN
      [] x.k = "date"  -> Num(x.n)

\* str(val).strip().lower() / String(v).trim().toLowerCase() on the type texts
TrimLower(s) ==
    CASE s = "ST"         -> "st"
      [] s = " st "       -> "st"
      [] s = "Short Term" -> "short term"
      [] s = "LT"         -> "lt"
      [] s = "Long"       -> "long"
      [] OTHER            -> s

NoType == "<null>"

\* what a cell that is not text passes through as
PassThrough(x) == IF x.k = "text" THEN x.s ELSE "<value>"

\* src/app.py:82-88
normaliseType(v) ==
    IF v.k = "blank" THEN NoType
    ELSE LET s == IF v.k = "text" THEN TrimLower(v.s) ELSE "<value>"
         IN  IF s \in {"st", "short", "short-term", "short term"} THEN "ST"
             ELSE IF s \in {"lt", "long", "long-term", "long term"} THEN "LT"
             ELSE PassThrough(v)

\* src/apptest.py:77-86
normalise_types(val) ==
    IF val.k = "blank" THEN NoType
    ELSE LET s == IF val.k = "text" THEN TrimLower(val.s) ELSE "<value>"
         IN  IF s \in {"st", "short", "short-term", "short term"} THEN "ST"
             ELSE IF s \in {"lt", "long", "long-term", "long term"} THEN "LT"
             ELSE PassThrough(val)

\* ------------------------------------------------------------ ALM buckets
\* src/apptest.py:30-47, src/app.py:31-48
ALM_BUCKETS ==
    << [label |-> "0 Days to 7 Days",               min |-> 0,            max |-> 7],
       [label |-> "8 Days to 14 Days",              min |-> 8,            max |-> 14],
       [label |-> "15 Days to 30 Days",             min |-> 15,           max |-> 30],
       [label |-> "Over 1 Months & upto 2 Months",  min |-> 31,           max |-> 60],
       [label |-> "Over 2 Months & upto 6 Months",  min |-> 61,           max |-> 180],
       [label |-> "Over 6 Months & upto 12 Months", min |-> 181,          max |-> 365],
       [label |-> "Over 1 Years & upto 3 Years",    min |-> 366,          max |-> 365 * 3],
       [label |-> "Over 3 Years & upto 5 Years",    min |-> 365 * 3 + 1,  max |-> 365 * 5],
       [label |-> "Over 5 Years & upto 7 Years",    min |-> 365 * 5 + 1,  max |-> 365 * 7],
       [label |-> "Over 7 Years & upto 10 Years",   min |-> 365 * 7 + 1,  max |-> 365 * 10],
       [label |-> "Over 10 Years & upto 12 Years",  min |-> 365 * 10 + 1, max |-> 365 * 12],
       [label |-> "Over 12 Years & upto 15 Years",  min |-> 365 * 12 + 1, max |-> 365 * 15],
       [label |-> "Over 15 Years & upto 18 Years",  min |-> 365 * 15 + 1, max |-> 365 * 18],
       [label |-> "Over 18 Years & upto 20 Years",  min |-> 365 * 18 + 1, max |-> 365 * 20],
       [label |-> "Over 20 Years & upto 30 Years",  min |-> 365 * 20 + 1, max |-> 365 * 30],
       [label |-> "Over 30 Years & upto 50 Years",  min |-> 365 * 30 + 1, max |-> 365 * 50] >>

\* src/apptest.py:48
ALM_BUCKET_NAMES == { ALM_BUCKETS[i].label : i \in DOMAIN ALM_BUCKETS }

NoBucket == "<null>"

\* int(x) of Python on a finite float: truncation towards zero
IntOf(v) == IF v >= 0 THEN v \div Scale ELSE -((-v) \div Scale)

\* src/apptest.py:98-106
tenor_to_alm_bucket_name(tenor_days) ==
    IF ~IsNum(tenor_days) THEN "15 Days to 30 Days"
    ELSE LET d    == IntOf(tenor_days.n)
             hits == { i \in DOMAIN ALM_BUCKETS :
                         ALM_BUCKETS[i].min <= d /\ d <= ALM_BUCKETS[i].max }
         IN  IF hits # {} THEN ALM_BUCKETS[FirstIndex(hits)].label
             ELSE ALM_BUCKETS[Len(ALM_BUCKETS)].label

\* src/app.py:90-96
daysToBucket(days) ==
    IF ~IsNum(days) THEN NoBucket
    ELSE LET hits == { i \in DOMAIN ALM_BUCKETS :
                         /\ days.n >= ALM_BUCKETS[i].min * Scale
                         /\ days.n <= ALM_BUCKETS[i].max * Scale }
         IN  IF hits # {} THEN ALM_BUCKETS[FirstIndex(hits)].label ELSE NoBucket

\* ------------------------------------------------------ derivation engine
\* A row of the working table.  Field names follow the data model; the source
\* columns are, in src/apptest.py / src/app.py:
\*   src                  the row's place in the upload (the DataFrame index)
\*   raw                  the uploaded row (df keeps raw's columns / _display)
\*   availabilityDate     __date, coerced              rate         __roi
\*   drawAmount           __amount                     tenorDays    __tenor_days
\*   loanTypeCode         __type
\*   daysToAvailability   __days_to_avail / __daysToAvail
\*   effectiveTenorDays   __effective_tenor_days / __effTenor
\*   nearnessClass        __near_flag / __nearFlag
\*   almBucket            __alm_bucket / __almBucketLabel
\*   almPriority          __alm_priority / __almPriority
\*   picked, remainingAfter   'Picked Amount', 'Remaining After Pick' (py only)

\* src/apptest.py:299  pd.Timestamp.now(IST).normalize()
PyToday(instant) == (instant \div TicksPerDay) * TicksPerDay

\* PyDaysToAvail that fills the days of a row without a date with 0 (a fillna(0))
PyDaysToAvail_fillzero(d, instant) ==
    IF IsNum(d) THEN Num((d.n - PyToday(instant)) \div TicksPerDay) ELSE Num(0)

\* src/apptest.py:300  (df['__date'] - today).dt.days
PyDaysToAvail(d, instant) ==
    IF IsNum(d) THEN Num((d.n - PyToday(instant)) \div TicksPerDay) ELSE NaN

\* src/apptest.py:303
PyEffectiveTenor(type, tenor_days) ==
    IF type = "ST" \/ ~IsNum(tenor_days) THEN Num(90 * Scale) ELSE tenor_days

\* PyNearFlag with the window's last day left out (< for <=)
PyNearFlag_exclusive(days, window) ==
    IF IsNum(days) /\ days.n >= 0 /\ days.n < window THEN 0
    ELSE IF IsNum(days) /\ days.n < 0 THEN 2
    ELSE 1

\* src/apptest.py:306-313
PyNearFlag(days, window) ==
    IF IsNum(days) /\ days.n >= 0 /\ days.n <= window THEN 0
    ELSE IF IsNum(days) /\ days.n < 0 THEN 2
    ELSE 1

\* PyAlmPriority that leaves the weight out
PyAlmPriority_noweight(weight, mismatch) == Num(-mismatch)

\* src/apptest.py:322
PyAlmPriority(weight, mismatch) == Num(-(weight * mismatch))

\* src/apptest.py:277-322, one row of df
PyDerive(r, idx, cs, cmap, instant, window, mismatchInputs, weight) ==
    LET d      == coerce_date(At(r, cs, cmap.date))
        roi    == _to_number(At(r, cs, cmap.roi))
        amount == _to_number(At(r, cs, cmap.amount))
        type   == IF cmap.type # NoCol THEN normalise_types(At(r, cs, cmap.type)) ELSE NoType
        tenor  == IF cmap.tenor # NoCol THEN _to_number(At(r, cs, cmap.tenor)) ELSE NaN
        days   == PyDaysToAvail(d, instant)
        eff    == PyEffectiveTenor(type, tenor)
        bucket == tenor_to_alm_bucket_name(eff)
    IN  [ src |-> idx, raw |-> r, availabilityDate |-> d, rate |-> roi, drawAmount |-> amount,
          tenorDays |-> tenor, loanTypeCode |-> type,
          daysToAvailability |-> days, effectiveTenorDays |-> eff,
          nearnessClass |-> PyNearFlag(days, window),
          almBucket |-> bucket, almMismatch |-> mismatchInputs[bucket],
          almPriority |-> PyAlmPriority(weight, mismatchInputs[bucket]),
          picked |-> NaN, remainingAfter |-> NaN ]

\* src/app.py:103-105
JsDaysToAvail(d, instant) ==
    IF IsNum(d) THEN Num((d.n - instant) \div TicksPerDay) ELSE Inf

\* src/app.py:106-110
JsTenor(type, tenor_days) ==
    IF IsNum(tenor_days) THEN tenor_days
    ELSE IF type = "ST" THEN Num(90 * Scale) ELSE Num(90 * Scale)

\* src/app.py:111-113
JsNearFlag(daysToAvail, nearWindowDays) ==
    LET first == IF IsNum(daysToAvail) /\ daysToAvail.n >= 0
                    /\ daysToAvail.n <= nearWindowDays THEN 0 ELSE 1
    IN  IF IsNum(daysToAvail) /\ daysToAvail.n < 0 THEN 2 ELSE first

\* src/app.py:116-117  Math.max(0, (almMap && almMap[label]) || 0), negated
JsAlmPriority(map, label) ==
    LET looked == IF label \in DOMAIN map THEN map[label] ELSE 0
    IN  Num(-Max2(0, looked))

\* src/app.py:291-298 and 101-127: one row of `processed` before the sort
JsDerive(r, idx, cs, cmap, instant, nearWindowDays, map) ==
    LET d      == coerceDate(At(r, cs, cmap.date))
        roi    == coerceNumber(At(r, cs, cmap.roi))
        amount == coerceNumber(At(r, cs, cmap.amount))
        tenor0 == coerceNumber(At(r, cs, cmap.tenor))
        type   == normaliseType(At(r, cs, cmap.type))
        days   == JsDaysToAvail(d, instant)
        tenor  == JsTenor(type, tenor0)
        label  == daysToBucket(tenor)
    IN  [ src |-> idx, raw |-> r, availabilityDate |-> d, rate |-> roi, drawAmount |-> amount,
          tenorDays |-> tenor0, loanTypeCode |-> type,
          daysToAvailability |-> days, effectiveTenorDays |-> tenor,
          nearnessClass |-> JsNearFlag(days, nearWindowDays),
          almBucket |-> label,
          almMismatch |-> IF label \in DOMAIN map THEN map[label] ELSE 0,
          almPriority |-> JsAlmPriority(map, label),
          picked |-> NaN, remainingAfter |-> NaN ]

\* ------------------------------------------------------------------ ranker
\* The result of a stable sort of rows under a comparison Cmp (negative: before,
\* zero: tie, positive: after) that orders them consistently: a row's place is
\* one more than the number of rows that go before it.
StableOrder(rows, Cmp(_, _)) ==
    LET n      == Len(rows)
        pos(i) == 1 + Cardinality({ j \in 1..n :
                        \/ Cmp(rows[j], rows[i]) < 0
                        \/ Cmp(rows[j], rows[i]) = 0 /\ j < i })
    IN  [ k \in 1..n |-> rows[CHOOSE i \in 1..n : pos(i) = k] ]

\* one sort column of DataFrame.sort_values: ascending, na_position='last'
PyColCmp(x, y) ==
    IF IsNum(x) /\ IsNum(y) THEN Sign(x.n - y.n)
    ELSE IF IsNum(x) THEN -1
    ELSE IF IsNum(y) THEN 1
    ELSE 0

FirstNonZero(ds) ==
    LET nz == { i \in DOMAIN ds : ds[i] # 0 }
    IN  IF nz = {} THEN 0 ELSE ds[FirstIndex(nz)]

\* src/apptest.py:328  by=[__near_flag, __alm_priority, __roi, __days_to_avail,
\*                         __effective_tenor_days], all ascending
PySortKeyCmp(a, b) ==
    FirstNonZero(<< Sign(a.nearnessClass - b.nearnessClass),
                    PyColCmp(a.almPriority, b.almPriority),
                    PyColCmp(a.rate, b.rate),
                    PyColCmp(a.daysToAvailability, b.daysToAvailability),
                    PyColCmp(a.effectiveTenorDays, b.effectiveTenorDays) >>)

\* sort_values that leaves out the rows whose rate is NaN (a dropna before the sort)
sort_values_dropna(df) ==
    StableOrder(SelectSeq(df, LAMBDA r : IsNum(r.rate)), PySortKeyCmp)

\* src/apptest.py:327-330  df.sort_values(by=[...]): a lexsort, which is stable
sort_values(df) == StableOrder(df, PySortKeyCmp)

\* x - y on JS numbers: a finite difference, NaN, Infinity or -Infinity
NegInf == [k |-> "-inf", n |-> 0]
JsSub(x, y) ==
    CASE IsNum(x) /\ IsNum(y)       -> Num(x.n - y.n)
      [] x.k = "nan" \/ y.k = "nan" -> NaN
      [] x.k = "inf" /\ y.k = "inf" -> NaN
      [] x.k = "inf"                -> Inf
      [] OTHER                      -> NegInf

\* a || b on JS numbers: 0 and NaN are falsy
JsOr(a, b) == IF a = Num(0) \/ a = NaN THEN b ELSE a

\* src/app.py:128-137, the comparator.  The `?? Infinity` arms replace null and
\* undefined only; every field here is a number (NaN included), so they pass it on.
JsComparator(a, b) ==
    JsOr(Num(a.nearnessClass - b.nearnessClass),
    JsOr(JsSub(a.almPriority, b.almPriority),
    JsOr(JsSub(a.rate, b.rate),
    JsOr(JsSub(a.daysToAvailability, b.daysToAvailability),
         JsSub(a.effectiveTenorDays, b.effectiveTenorDays)))))

\* Array.prototype.sort reads the comparator's result: NaN counts as +0
JsSortCompare(a, b) ==
    LET v == JsComparator(a, b)
    IN  CASE v.k = "num"  -> Sign(v.n)
          [] v.k = "nan"  -> 0
          [] v.k = "inf"  -> 1
          [] v.k = "-inf" -> -1

\* ECMA-262, Array.prototype.sort: the comparator is consistent on these rows
JsConsistent(rows) ==
    LET S == Range(rows)
        c(a, b) == JsSortCompare(a, b)
    IN  \A a \in S : \A b \in S :
          /\ c(a, a) = 0
          /\ (c(a, b) = 0) = (c(b, a) = 0)
          /\ (c(a, b) < 0) = (c(b, a) > 0)
          /\ \A x \in S :
               /\ (c(a, b) = 0 /\ c(b, x) = 0) => c(a, x) = 0
               /\ (c(a, b) < 0 /\ c(b, x) < 0) => c(a, x) < 0
               /\ (c(a, b) > 0 /\ c(b, x) > 0) => c(a, x) > 0

RowOrders(rows) ==
    { [k \in DOMAIN rows |-> rows[p[k]]] :
        p \in { q \in [DOMAIN rows -> DOMAIN rows] :
                  \A i, j \in DOMAIN rows : q[i] = q[j] => i = j } }

\* [...rows].sort(comparator): every order the sort may leave.  With a consistent
\* comparator that is the one stable order; with an inconsistent one the order
\* is implementation-defined, and any permutation of the rows is an outcome.
JsArraySort(rows) ==
    IF JsConsistent(rows) THEN { StableOrder(rows, JsSortCompare) }
    ELSE RowOrders(rows)

\* src/app.py:98-138
sortRows(rows, cs, cmap, instant, nearWindowDays, map) ==
    JsArraySort([ n \in DOMAIN rows |->
                    JsDerive(rows[n], n, cs, cmap, instant, nearWindowDays, map) ])

\* ------------------------------------------------------------------ state
VARIABLES
    variant,       \* "py": src/apptest.py   "js": src/app.py
    cols,          \* the upload's column names, in sheet order
    sheetRows,     \* the upload's rows (raw / json), each the tuple of its cells
    now,           \* the evaluation instant, in ticks
    nearDays,      \* NEAR_WINDOW_DAYS / nearDays
    targetAmount,  \* target_amount / targetAmount
    almMap,        \* alm_mismatch_inputs / almMap: bucket label -> mismatch
    almWeight,     \* alm_weight (py only)
    pc,            \* where the run is
    colMap,        \* map_cols / colMap: role -> column name or NoCol
    missing,       \* py: the required roles reported missing
    df,            \* py: the working table before the sort
    out,           \* py: out / js: processed, the ranked table
    remaining,     \* py: the packing walk's remaining target
    i,             \* py: the packing walk's next row
    shown          \* what the page shows: "nothing", "error" or "table"

vars == << variant, cols, sheetRows, now, nearDays, targetAmount, almMap, almWeight,
           pc, colMap, missing, df, out, remaining, i, shown >>

inputs == << variant, cols, sheetRows, now, nearDays, targetAmount, almMap, almWeight >>

Roles    == {"date", "roi", "amount", "tenor", "type"}
Required == {"date", "roi", "amount"}
NoMap    == [r \in Roles |-> NoCol]

\* ------------------------------------------------------------- operations
\* src/apptest.py:257-267
PyMapCols ==
    /\ variant = "py" /\ pc = "acquired"
    /\ colMap' = [ date   |-> smart_pick_col(cols, DATE_CANDIDATES),
                   roi    |-> smart_pick_col(cols, ROI_CANDIDATES),
                   amount |-> smart_pick_col(cols, AMOUNT_CANDIDATES),
                   tenor  |-> smart_pick_col(cols, TENOR_CANDIDATES),
                   type   |-> smart_pick_col(cols, TYPE_CANDIDATES) ]
    /\ missing' = { k \in Required : colMap'[k] = NoCol }
    /\ pc' = "mapped"
    /\ UNCHANGED << inputs, df, out, remaining, i, shown >>

\* src/apptest.py:268-272  st.error(...); st.stop()
PyStopMissing ==
    /\ variant = "py" /\ pc = "mapped"
    /\ missing # {}
    /\ shown' = "error"
    /\ pc' = "stopped"
    /\ UNCHANGED << inputs, colMap, missing, df, out, remaining, i >>

\* src/apptest.py:277-322
PyCleanDerive ==
    /\ variant = "py" /\ pc = "mapped"
    /\ missing = {}
    /\ df' = [ n \in DOMAIN sheetRows |->
                 PyDerive(sheetRows[n], n, cols, colMap, now, nearDays, almMap, almWeight) ]
    /\ pc' = "derived"
    /\ UNCHANGED << inputs, colMap, missing, out, remaining, i, shown >>

\* src/apptest.py:327-362  sort, build `out`, and enter the packing walk if a
\* target is set
PySort ==
    /\ variant = "py" /\ pc = "derived"
    /\ out' = sort_values(df)
    /\ remaining' = targetAmount
    /\ i' = 1
    /\ pc' = IF targetAmount > 0 THEN "packing" ELSE "render"
    /\ UNCHANGED << inputs, colMap, missing, df, shown >>

\* PyPackBody that takes a row's whole amount (no min with the remaining target)
PyPackBody_nomin(r, rem) ==
    LET amt == IF IsNum(r.drawAmount) THEN r.drawAmount.n ELSE 0
    IN  IF amt <= 0 \/ rem <= 0
        THEN [ row |-> r, remaining |-> rem ]
        ELSE [ row |-> [r EXCEPT !.picked = Num(amt),
                                 !.remainingAfter = Num(Max2(0, rem - amt))],
               remaining |-> rem - amt ]

\* PyPackBody that passes over a row larger than the remaining target (no part picks)
PyPackBody_nopartial(r, rem) ==
    LET amt == IF IsNum(r.drawAmount) THEN r.drawAmount.n ELSE 0
    IN  IF amt <= 0 \/ rem <= 0 \/ amt > rem
        THEN [ row |-> r, remaining |-> rem ]
        ELSE [ row |-> [r EXCEPT !.picked = Num(amt),
                                 !.remainingAfter = Num(Max2(0, rem - amt))],
               remaining |-> rem - amt ]

\* PyPackBody that writes a pick of zero on the rows it passes over
PyPackBody_zeropick(r, rem) ==
    LET amt == IF IsNum(r.drawAmount) THEN r.drawAmount.n ELSE 0
    IN  IF amt <= 0 \/ rem <= 0
        THEN [ row |-> [r EXCEPT !.picked = Num(0)], remaining |-> rem ]
        ELSE LET take == Min2(amt, rem)
             IN  [ row |-> [r EXCEPT !.picked = Num(take),
                                     !.remainingAfter = Num(Max2(0, rem - take))],
                   remaining |-> rem - take ]

\* src/apptest.py:364-370, the body of the loop for one row
PyPackBody(r, rem) ==
    LET amt == IF IsNum(r.drawAmount) THEN r.drawAmount.n ELSE 0
    IN  IF amt <= 0 \/ rem <= 0
        THEN [ row |-> r, remaining |-> rem ]
        ELSE LET take == Min2(amt, rem)
             IN  [ row |-> [r EXCEPT !.picked = Num(take),
                                     !.remainingAfter = Num(Max2(0, rem - take))],
                   remaining |-> rem - take ]

\* src/apptest.py:363-370, one iteration
PyPackRow ==
    /\ variant = "py" /\ pc = "packing"
    /\ i <= Len(out)
    /\ LET step == PyPackBody(out[i], remaining)
       IN  /\ out' = [out EXCEPT ![i] = step.row]
           /\ remaining' = step.remaining
    /\ i' = i + 1
    /\ UNCHANGED << inputs, pc, colMap, missing, df, shown >>

\* src/apptest.py:363  the loop ends with the last row
PyPackEnd ==
    /\ variant = "py" /\ pc = "packing"
    /\ i > Len(out)
    /\ pc' = "render"
    /\ UNCHANGED << inputs, colMap, missing, df, out, remaining, i, shown >>

\* src/apptest.py:375-385
PyRender ==
    /\ variant = "py" /\ pc = "render"
    /\ shown' = "table"
    /\ pc' = "rendered"
    /\ UNCHANGED << inputs, colMap, missing, df, out, remaining, i >>

\* src/app.py:271  json.length ? Object.keys(json[0]) : []
JsCols == IF sheetRows = << >> THEN << >> ELSE cols

\* src/app.py:264-279
onExcel ==
    /\ variant = "js" /\ pc = "acquired"
    /\ colMap' = [ date   |-> pickCol(JsCols, DATE_CANDIDATES),
                   roi    |-> pickCol(JsCols, ROI_CANDIDATES),
                   amount |-> pickCol(JsCols, AMOUNT_CANDIDATES),
                   tenor  |-> pickCol(JsCols, TENOR_CANDIDATES),
                   type   |-> pickCol(JsCols, TYPE_CANDIDATES) ]
    /\ pc' = "mapped"
    /\ UNCHANGED << inputs, missing, df, out, remaining, i, shown >>

\* src/app.py:288-300
processed ==
    /\ variant = "js" /\ pc = "mapped"
    /\ IF sheetRows = << >>
       THEN out' = << >>
       ELSE out' \in sortRows(sheetRows, cols, colMap, now, nearDays, almMap)
    /\ pc' = "render"
    /\ UNCHANGED << inputs, colMap, missing, df, remaining, i, shown >>

\* src/app.py:415  {!!processed.length && ( ... )}
JsRender ==
    /\ variant = "js" /\ pc = "render"
    /\ shown' = IF Len(out) > 0 THEN "table" ELSE "nothing"
    /\ pc' = "rendered"
    /\ UNCHANGED << inputs, colMap, missing, df, out, remaining, i >>

Next ==
    \/ PyMapCols \/ PyStopMissing \/ PyCleanDerive \/ PySort
    \/ PyPackRow \/ PyPackEnd \/ PyRender
    \/ onExcel \/ processed \/ JsRender

\* ----------------------------------------------------------------- uploads
\* the headers the programs themselves display (src/apptest.py:336-342,
\* src/app.py:425-429): the first candidate of every role
StdCols ==
    << DATE_CANDIDATES[1], ROI_CANDIDATES[1], AMOUNT_CANDIDATES[1],
       TENOR_CANDIDATES[1], TYPE_CANDIDATES[1] >>

\* a row under StdCols: its date, rate, amount, tenor and type cells
StdRow(d, r, a, t, ty) == << d, r, a, t, ty >>

Tables(rowSet, maxLen) == UNION { [1..n -> rowSet] : n \in 0..maxLen }

\* a mismatch table that is zero but for one bucket
AlmTable(hot, v) == [ l \in ALM_BUCKET_NAMES |-> IF l = hot THEN v ELSE 0 ]
ZeroAlm == AlmTable("0 Days to 7 Days", 0)

Day(d) == d * TicksPerDay

\* Rows for the ranking under a window of w days.  Long-term lines of 30 days:
\* every date class at the window's edges with a numeric and an unparseable
\* rate, and a second numeric rate inside the window.  The in-window line with
\* rate 1 under the other tenor and type combinations.  An unparseable rate on
\* a line without a tenor.
RankDates(w) == {Blank} \cup { DateCell(Day(d)) : d \in {-1, 0, w, w + 1} }
RankRows(w) ==
    { StdRow(d, r, NumCell(1 * Scale), NumCell(30 * Scale), TextCell("LT")) :
        d \in RankDates(w), r \in { TextCell("n/a"), NumCell(1 * Scale) } }
    \cup
    { StdRow(DateCell(Day(d)), NumCell(2 * Scale), NumCell(1 * Scale),
             NumCell(30 * Scale), TextCell("LT")) : d \in {0, w} }
    \cup
    { StdRow(DateCell(Day(0)), NumCell(1 * Scale), NumCell(1 * Scale), x[1], x[2]) :
        x \in { << NumCell(30 * Scale), TextCell("ST") >>,
                << Blank, TextCell(" st ") >>,
                << Blank, TextCell("LT") >>,
                << NumCell(120 * Scale), TextCell("LT") >> } }
    \cup
    { StdRow(DateCell(Day(0)), TextCell("n/a"), NumCell(1 * Scale), Blank, TextCell("LT")) }

\* the mismatch figures of the ranking uploads: an outflow in the bucket of the
\* default tenor (90 days), which also holds the tenor of 120 days
RankAlm == AlmTable("Over 2 Months & upto 6 Months", 1)

Start ==
    /\ pc = "acquired"
    /\ colMap = NoMap
    /\ missing = {}
    /\ df = << >>
    /\ out = << >>
    /\ remaining = 0
    /\ i = 1
    /\ shown = "nothing"

\* uploads that exercise the ranking
InitRank ==
    /\ variant \in {"py", "js"}
    /\ cols = StdCols
    /\ nearDays \in 1..MaxWindow
    /\ sheetRows \in Tables(RankRows(nearDays), MaxRows)
    /\ now = 0
    /\ targetAmount = 0
    /\ almMap = RankAlm
    /\ almWeight = 1
    /\ Start

\* Rows for the packing walk: amounts that are missing, negative, zero and
\* positive; the rates alternate so that the ranked order is not the upload's.
PackAmounts == {Blank} \cup { NumCell(a * Scale) : a \in (-1)..MaxAmount }
PackRow(n, a) ==
    StdRow(DateCell(Day(0)), NumCell((1 + (n % 2)) * Scale), a, Blank, TextCell("LT"))

\* uploads that exercise the packing walk (the plan is built by src/apptest.py only)
InitPack ==
    /\ variant = "py"
    /\ cols = StdCols
    /\ nearDays = 1
    /\ \E len \in 0..MaxPackRows : \E a \in [1..len -> PackAmounts] :
         sheetRows = [ n \in 1..len |-> PackRow(n, a[n]) ]
    /\ now = 0
    /\ targetAmount \in { t * Scale : t \in 1..MaxTarget }
    /\ almMap = ZeroAlm
    /\ almWeight = 1
    /\ Start

\* Headers for the resolver: exact and substring matches of several candidates,
\* two names that differ in case only, two that hold the same candidate, and
\* one that matches nothing.
H_Date         == DATE_CANDIDATES[5]
H_ValueDate    == <<"V","a","l","u","e"," ","D","a","t","e">>
H_DrawDate     == <<"D","r","a","w"," ","D","a","t","e">>
H_ROI          == ROI_CANDIDATES[1]
H_roi          == <<"r","o","i">>
H_InterestRate == <<"I","n","t","e","r","e","s","t"," ","R","a","t","e">>
H_Rate         == ROI_CANDIDATES[3]
H_Amount       == AMOUNT_CANDIDATES[2]
H_Notes        == <<"N","o","t","e","s">>
HeaderPool ==
    { H_Date, H_ValueDate, H_DrawDate, H_ROI, H_roi, H_InterestRate, H_Rate,
      H_Amount, H_Notes }

\* what a column under such a header holds
SampleCell(h) ==
    CASE h \in {H_Date, H_ValueDate, H_DrawDate}      -> DateCell(Day(1))
      [] h \in {H_ROI, H_roi, H_InterestRate, H_Rate} -> NumCell(1 * Scale)
      [] h = H_Amount                                 -> NumCell(1 * Scale)
      [] OTHER                                        -> TextCell("n/a")

\* sequences of up to maxLen distinct headers
HeaderRows(maxLen) ==
    UNION { { h \in [1..n -> HeaderPool] : \A a, b \in 1..n : h[a] = h[b] => a = b } :
            n \in 0..maxLen }

\* uploads that exercise the schema resolver: one row under varying headers
InitCols ==
    /\ variant \in {"py", "js"}
    /\ cols \in HeaderRows(MaxCols)
    /\ sheetRows = IF cols = << >> THEN << >>
                   ELSE << [ n \in DOMAIN cols |-> SampleCell(cols[n]) ] >>
    /\ nearDays = 1
    /\ now = 0
    /\ targetAmount = 1 * Scale
    /\ almMap = ZeroAlm
    /\ almWeight = 1
    /\ Start

\* Four long-term lines of 30 days in one nearness class (beyond the window of
\* one day): two that agree on every ranking key and differ in amount only, a
\* cheaper line available later, and a line with an unparseable rate between.
TieRows ==
    << StdRow(DateCell(Day(2)), NumCell(1 * Scale), NumCell(1 * Scale),
              NumCell(30 * Scale), TextCell("LT")),
       StdRow(DateCell(Day(4)), NumCell(1), NumCell(1 * Scale),
              NumCell(30 * Scale), TextCell("LT")),
       StdRow(DateCell(Day(3)), TextCell("n/a"), NumCell(1 * Scale),
              NumCell(30 * Scale), TextCell("LT")),
       StdRow(DateCell(Day(2)), NumCell(1 * Scale), NumCell(2 * Scale),
              NumCell(30 * Scale), TextCell("LT")) >>

\* the uploads that hold these four lines, in every order
TieTables ==
    { [ k \in DOMAIN TieRows |-> TieRows[p[k]] ] :
        p \in { q \in [DOMAIN TieRows -> DOMAIN TieRows] :
                  \A a, b \in DOMAIN TieRows : q[a] = q[b] => a = b } }

\* uploads that exercise the ranking of tied lines
InitTies ==
    /\ variant \in {"py", "js"}
    /\ cols = StdCols
    /\ nearDays = 1
    /\ sheetRows \in TieTables
    /\ now = 0
    /\ targetAmount = 0
    /\ almMap = RankAlm
    /\ almWeight = 1
    /\ Start

\* Rows for the ALM key: lines available today with rate 1 and rate 2, of 120
\* days (bucket "Over 2 Months & upto 6 Months") and of 30 days (bucket "15 Days
\* to 30 Days"), and a past-dated line of 30 days.
HotBucket == "Over 2 Months & upto 6 Months"
AlmRows ==
    { StdRow(DateCell(Day(0)), NumCell(r * Scale), NumCell(1 * Scale),
             NumCell(t * Scale), TextCell("LT")) : r \in {1, 2}, t \in {30, 120} }
    \cup
    { StdRow(DateCell(Day(-1)), NumCell(1 * Scale), NumCell(1 * Scale),
             NumCell(30 * Scale), TextCell("LT")) }

\* uploads that exercise the ALM key: an outflow, nothing or an inflow in the
\* bucket of the lines of 120 days; the weight is an input of src/apptest.py only
InitAlm ==
    /\ variant \in {"py", "js"}
    /\ cols = StdCols
    /\ nearDays = 1
    /\ sheetRows \in Tables(AlmRows, MaxRows)
    /\ now = 0
    /\ targetAmount = 0
    /\ almMap \in { AlmTable(HotBucket, v) : v \in (-MaxMismatch)..MaxMismatch }
    /\ almWeight \in IF variant = "py" THEN 0..MaxWeight ELSE {1}
    /\ Start

\* Rows for the day count: lines dated at the start of day 0, 1 and 2 and one
\* dated one tick into day 1.
ClockRows ==
    { StdRow(DateCell(t), NumCell(1 * Scale), NumCell(1 * Scale),
             NumCell(30 * Scale), TextCell("LT")) :
        t \in { Day(0), Day(1), Day(1) + 1, Day(2) } }

\* uploads evaluated at every tick of day 0 and at the start of day 1
InitClock ==
    /\ variant \in {"py", "js"}
    /\ cols = StdCols
    /\ nearDays = 1
    /\ sheetRows \in Tables(ClockRows, MaxRows)
    /\ now \in 0..TicksPerDay
    /\ targetAmount = 0
    /\ almMap = ZeroAlm
    /\ almWeight = 1
    /\ Start

\* Rows for the bucket assignment: long-term lines available today with a tenor
\* of 7, 7.5 and 8 days, of 50 years, and of one day more than 50 years.
LastBucket == ALM_BUCKETS[Len(ALM_BUCKETS)].label
BucketTenors ==
    { 7 * Scale, (15 * Scale) \div 2, 8 * Scale, (365 * 50) * Scale, (365 * 50 + 1) * Scale }
BucketRows ==
    { StdRow(DateCell(Day(0)), NumCell(1 * Scale), NumCell(1 * Scale),
             NumCell(t), TextCell("LT")) : t \in BucketTenors }

\* uploads that exercise the bucket assignment, with an outflow in the second
\* or in the last bucket
InitBuckets ==
    /\ variant \in {"py", "js"}
    /\ cols = StdCols
    /\ nearDays = 1
    /\ sheetRows \in Tables(BucketRows, MaxRows)
    /\ now = 0
    /\ targetAmount = 0
    /\ almMap \in { AlmTable("8 Days to 14 Days", 1), AlmTable(LastBucket, 1) }
    /\ almWeight = 1
    /\ Start

Init ==
    \/ InitRank \/ InitPack \/ InitCols \/ InitTies \/ InitAlm \/ InitClock
    \/ InitBuckets

Spec == Init /\ [][Next]_vars

\* ------------------------------------------------------------ properties
\* the ranked table exists
Ranked == pc \in {"packing", "render", "rendered"}

\* a key component of the data model: a value that is not a number (NaN, null,
\* undefined days) compares after every number
KeyPart(x, y) ==
    IF x.k = "num" /\ y.k = "num" THEN Sign(x.n - y.n)
    ELSE IF x.k = "num" THEN -1
    ELSE IF y.k = "num" THEN 1
    ELSE 0

\* -1, 0, 1: the composite key of a is before, equal to, after that of b
CompositeKey(a, b) ==
    LET ds == << Sign(a.nearnessClass - b.nearnessClass),
                 KeyPart(a.almPriority, b.almPriority),
                 KeyPart(a.rate, b.rate),
                 KeyPart(a.daysToAvailability, b.daysToAvailability),
                 KeyPart(a.effectiveTenorDays, b.effectiveTenorDays) >>
        nz == { n \in 1..5 : ds[n] # 0 }
    IN  IF nz = {} THEN 0 ELSE ds[CHOOSE n \in nz : \A m \in nz : n <= m]

\* C1: the ranked table is in ascending lexicographic order of (nearnessClass,
\* almPriorityScore, rate, daysToAvailability, effectiveTenorDays): a row never
\* comes before a row with a smaller key.
C1_RankedByCompositeKey ==
    Ranked => \A m, n \in DOMAIN out : m < n => CompositeKey(out[m], out[n]) <= 0

\* the nearness rule for one row r of the working table
NearnessLaw(r) ==
    LET known == r.daysToAvailability.k = "num"
        days  == r.daysToAvailability.n
    IN  /\ r.nearnessClass \in {0, 1, 2}
        /\ (r.nearnessClass = 0) = (known /\ 0 <= days /\ days <= nearDays)
        /\ (r.nearnessClass = 2) = (known /\ days < 0)
        /\ r.availabilityDate.k # "num" => r.nearnessClass = 1

\* C2: in every row of the working and of the ranked table nearnessClass is 0
\* exactly when 0 <= daysToAvailability <= nearWindowDays, 2 exactly when
\* daysToAvailability < 0, and 1 otherwise; a row without a parseable date is
\* class 1.
C2_NearnessPartition ==
    /\ \A n \in DOMAIN df : NearnessLaw(df[n])
    /\ \A n \in DOMAIN out : NearnessLaw(out[n])

\* C2 witness: a ranked table with a row on the window's last day in class 0
\* and a row without a date in class 1
C2_Witness ==
    /\ Ranked
    /\ \E n \in DOMAIN out :
         out[n].daysToAvailability = Num(nearDays) /\ out[n].nearnessClass = 0
    /\ \E n \in DOMAIN out :
         out[n].availabilityDate = NaN /\ out[n].nearnessClass = 1

\* the tenor default rule for one row r of the working table
TenorLaw(r) ==
    IF r.loanTypeCode = "ST" \/ r.tenorDays.k # "num"
    THEN r.effectiveTenorDays = Num(90 * Scale)
    ELSE r.effectiveTenorDays = r.tenorDays

\* C3: effectiveTenorDays is 90 whenever the type is ST or the tenor is missing
\* (also for an ST line with a tenor of its own), and the source tenor otherwise.
C3_TenorDefault ==
    /\ \A n \in DOMAIN df : TenorLaw(df[n])
    /\ \A n \in DOMAIN out : TenorLaw(out[n])

\* the number of places of a sequence that hold the value v
Count(seq, v) == Cardinality({ n \in DOMAIN seq : seq[n] = v })

\* C4: the ranked table is a permutation of the upload: as many rows, and every
\* uploaded row as often as it was uploaded.
C4_RankIsPermutation ==
    Ranked =>
      /\ Len(out) = Len(sheetRows)
      /\ \A v \in Range(sheetRows) \cup { out[n].raw : n \in DOMAIN out } :
           Count([ n \in DOMAIN out |-> out[n].raw ], v) = Count(sheetRows, v)

\* C4 witness: a past-dated row and a row with an unparseable rate, uploaded in
\* that order, are both ranked, in the other order
C4_Witness ==
    /\ Ranked
    /\ Len(out) = 2
    /\ out[1].src = 2 /\ out[2].src = 1
    /\ out[2].nearnessClass = 2
    /\ out[1].rate = NaN

\* The packing walk, which src/apptest.py alone has: the rows it has passed,
\* their picks, their usable amounts.
Walking   == variant = "py" /\ targetAmount > 0 /\ pc \in {"packing", "render", "rendered"}
WalkEnded == variant = "py" /\ targetAmount > 0 /\ pc \in {"render", "rendered"}
Passed    == IF pc = "packing" THEN 1..(i - 1) ELSE DOMAIN out
HasPick(r) == r.picked.k = "num"
Usable(r)  == r.drawAmount.k = "num" /\ r.drawAmount.n > 0
PickSum(rows) ==
    SumSeq([ n \in DOMAIN rows |-> IF HasPick(rows[n]) THEN rows[n].picked.n ELSE 0 ])
PickedDrawSum(rows) ==
    SumSeq([ n \in DOMAIN rows |-> IF HasPick(rows[n]) THEN rows[n].drawAmount.n ELSE 0 ])
UsableSum(rows) ==
    SumSeq([ n \in DOMAIN rows |-> IF Usable(rows[n]) THEN rows[n].drawAmount.n ELSE 0 ])

\* C5: at every step of the packing walk and at its end the picks sum to at most
\* the target, every pick is positive and at most its row's amount, and no row
\* is picked while a usable row ranked ahead of it is left unpicked.
C5_PackingBounds ==
    Walking =>
      /\ PickSum(out) <= targetAmount
      /\ \A n \in DOMAIN out :
           HasPick(out[n]) =>
             /\ out[n].picked.n > 0
             /\ out[n].drawAmount.k = "num"
             /\ out[n].picked.n <= out[n].drawAmount.n
             /\ \A m \in 1..(n - 1) : Usable(out[m]) => HasPick(out[m])

\* C5 witness: the walk has ended with two picks, the second a part of its row
C5_Witness ==
    /\ WalkEnded
    /\ \E m, n \in DOMAIN out :
         /\ m < n
         /\ HasPick(out[m]) /\ out[m].picked = out[m].drawAmount
         /\ HasPick(out[n]) /\ out[n].picked.n < out[n].drawAmount.n

\* C6: the picks sum to min(target, sum of the amounts of the rows that got a
\* pick), during the walk and at its end; at the end the target is met exactly
\* when the usable amounts suffice, and otherwise every usable row is picked in
\* full.
C6_PackingConservation ==
    /\ Walking => PickSum(out) = Min2(targetAmount, PickedDrawSum(out))
    /\ WalkEnded =>
         IF UsableSum(out) >= targetAmount
         THEN PickSum(out) = targetAmount
         ELSE \A n \in DOMAIN out : Usable(out[n]) => out[n].picked = out[n].drawAmount

\* C6 witness: a walk that met its target with a full pick and a partial one
C6_Witness ==
    /\ WalkEnded
    /\ PickSum(out) = targetAmount
    /\ PickedDrawSum(out) > targetAmount
    /\ Cardinality({ n \in DOMAIN out : HasPick(out[n]) }) >= 2

\* the remaining target when the walk reaches row n: the target less the picks
\* of the rows ranked ahead of it
RemainingBefore(n) == targetAmount - PickSum(SubSeq(out, 1, n - 1))

\* C7: a row gets a pick exactly when its amount is a number above zero and the
\* remaining target is above zero when the walk reaches it; the pick is the
\* smaller of the two; every other row is left without a pick, not with a pick
\* of zero.
C7_PickRule ==
    Walking =>
      \A n \in DOMAIN out :
        IF n \in Passed /\ Usable(out[n]) /\ RemainingBefore(n) > 0
        THEN out[n].picked = Num(Min2(out[n].drawAmount.n, RemainingBefore(n)))
        ELSE out[n].picked = NaN /\ out[n].remainingAfter = NaN

\* C7 witness: a target of 3 over ranked amounts 2, 2, 1 picks 2, then 1 of the
\* second row, and leaves the third row without a pick
C7_Witness ==
    /\ WalkEnded
    /\ targetAmount = 3 * Scale
    /\ Len(out) = 3
    /\ out[1].drawAmount = Num(2 * Scale) /\ out[1].picked = Num(2 * Scale)
    /\ out[2].drawAmount = Num(2 * Scale) /\ out[2].picked = Num(1 * Scale)
    /\ out[3].drawAmount = Num(1 * Scale) /\ out[3].picked = NaN

\* the columns the resolver of the running program is given
GivenCols == IF variant = "js" THEN JsCols ELSE cols

Earliest(S) == CHOOSE n \in S : \A m \in S : n <= m

\* cs: the columns, cands: a role's candidates, res: what the role resolved to.
\* exact / held: the candidates, by place, that some column equals / holds,
\* ignoring case (a column that equals a candidate holds it).
TwoPhase(cs, cands, res) ==
    LET lcs   == [ n \in DOMAIN cs |-> Lower(cs[n]) ]
        lcand == [ ci \in DOMAIN cands |-> Lower(cands[ci]) ]
        exact == { ci \in DOMAIN cands : \E n \in DOMAIN cs : lcs[n] = lcand[ci] }
        held  == { ci \in DOMAIN cands : \E n \in DOMAIN cs : Contains(lcs[n], lcand[ci]) }
    IN  IF exact # {}
        THEN /\ res \in Range(cs)
             /\ Lower(res) = lcand[Earliest(exact)]
        ELSE IF held # {}
        THEN /\ res \in Range(cs)
             /\ Contains(Lower(res), lcand[Earliest(held)])
        ELSE res = NoCol

\* C8: a role resolves to the column that equals, ignoring case, the earliest
\* candidate that any column equals; only if no column equals a candidate, to a
\* column that holds the earliest candidate that any column holds; and to null
\* exactly when no column holds a candidate.
C8_TwoPhaseResolution ==
    pc = "mapped" =>
      /\ TwoPhase(GivenCols, DATE_CANDIDATES, colMap.date)
      /\ TwoPhase(GivenCols, ROI_CANDIDATES, colMap.roi)
      /\ TwoPhase(GivenCols, AMOUNT_CANDIDATES, colMap.amount)
      /\ TwoPhase(GivenCols, TENOR_CANDIDATES, colMap.tenor)
      /\ TwoPhase(GivenCols, TYPE_CANDIDATES, colMap.type)

\* C8 witness: "Rate" equals the third rate candidate and wins over "Interest
\* Rate", listed first, which holds the second
C8_Witness ==
    /\ pc = "mapped"
    /\ Len(cols) >= 2 /\ cols[1] = H_InterestRate /\ H_Rate \in Range(cols)
    /\ colMap.roi = H_Rate

\* the required roles left unresolved
Unresolved == { k \in Required : colMap[k] = NoCol }

\* C9: when a required role (date, rate, amount) is unresolved the run stops
\* before normalisation and ranking, reports exactly the unresolved required
\* roles, and produces neither a ranked table nor a plan.
C9_HaltOnMissingRole ==
    (pc # "acquired" /\ Unresolved # {}) =>
      /\ pc \in {"mapped", "stopped"}
      /\ df = << >> /\ out = << >>
      /\ shown # "table"
      /\ pc = "stopped" => (shown = "error" /\ missing = Unresolved)

\* C10: among rows of equal nearnessClass and almPriorityScore a row with a
\* numeric rate comes before a row with an unparseable rate, and the numeric
\* rows keep among themselves the order of their keys.
C10_NaNRateLast ==
    Ranked =>
      \A m, n \in DOMAIN out :
        ( /\ m < n
          /\ out[m].nearnessClass = out[n].nearnessClass
          /\ out[m].almPriority = out[n].almPriority ) =>
            /\ out[m].rate.k # "num" => out[n].rate.k # "num"
            /\ (out[m].rate.k = "num" /\ out[n].rate.k = "num") =>
                 CompositeKey(out[m], out[n]) <= 0


\* a row without a parseable availability date
NoDate(r) == r.availabilityDate.k # "num"

\* the statement that a row without a date comes after every row with one, and
\* that its days are not 0
C11_NullDateAfterAllKnown ==
    Ranked =>
      /\ \A m, n \in DOMAIN out : (NoDate(out[m]) /\ ~NoDate(out[n])) => n < m
      /\ \A n \in DOMAIN out : NoDate(out[n]) => out[n].daysToAvailability # Num(0)

\* rows a and b agree on the three keys that rank ahead of daysToAvailability
TiedBeforeDays(a, b) ==
    /\ a.nearnessClass = b.nearnessClass
    /\ KeyPart(a.almPriority, b.almPriority) = 0
    /\ KeyPart(a.rate, b.rate) = 0

\* the comparison the running program ranks by: negative, a goes before b
RankCompare(a, b) == IF variant = "py" THEN PySortKeyCmp(a, b) ELSE JsSortCompare(a, b)

\* C11: a row without a parseable availability date has no number of days (not
\* 0) and is in class 1; the ranking comparison puts it after every row with a
\* known date that agrees with it on nearnessClass, almPriorityScore and rate,
\* and in the table ranked by src/apptest.py it stands after every such row.
C11_NullDateAfterTiedKnown ==
    Ranked =>
      /\ \A n \in DOMAIN out :
           NoDate(out[n]) =>
             out[n].daysToAvailability.k # "num" /\ out[n].nearnessClass = 1
      /\ \A m, n \in DOMAIN out :
           (NoDate(out[m]) /\ ~NoDate(out[n]) /\ TiedBeforeDays(out[m], out[n])) =>
             /\ RankCompare(out[m], out[n]) > 0
             /\ RankCompare(out[n], out[m]) < 0
             /\ variant = "py" => n < m

\* C11 witness: a row without a date, uploaded first, is ranked after a row of
\* the same class, score and rate that has a date
C11_Witness ==
    /\ Ranked
    /\ Len(out) = 2
    /\ out[1].src = 2 /\ ~NoDate(out[1])
    /\ out[2].src = 1 /\ NoDate(out[2])
    /\ TiedBeforeDays(out[1], out[2])

\* rows a and b agree on all five ranking keys
FullyTied(a, b) ==
    /\ TiedBeforeDays(a, b)
    /\ KeyPart(a.daysToAvailability, b.daysToAvailability) = 0
    /\ KeyPart(a.effectiveTenorDays, b.effectiveTenorDays) = 0

\* C12: rows that agree on all five ranking keys keep, in the ranked table, the
\* order they had in the upload.
C12_StableRanking ==
    Ranked =>
      \A m, n \in DOMAIN out :
        (m < n /\ FullyTied(out[m], out[n])) => out[m].src < out[n].src

\* the signed mismatch figure of row r's bucket (0 for a row without a bucket)
Mismatch(r) == IF r.almBucket \in DOMAIN almMap THEN almMap[r.almBucket] ELSE 0

\* C13: almPriorityScore is -(almWeight x almMismatch) for the signed mismatch of
\* the row's bucket, and with a positive weight a row whose bucket's mismatch is
\* larger stands ahead of every row of its nearness class whose bucket's mismatch
\* is smaller, whatever their rates (src/app.py has no weight: it counts as 1).
C13_AlmPrioritySign ==
    Ranked =>
      /\ \A n \in DOMAIN out :
           out[n].almPriority = Num(-(almWeight * Mismatch(out[n])))
      /\ almWeight > 0 =>
           \A m, n \in DOMAIN out :
             ( /\ out[m].nearnessClass = out[n].nearnessClass
               /\ Mismatch(out[m]) > Mismatch(out[n]) ) => m < n

\* the comparison of the ranking without the ALM key
NonAlmCmp(a, b) ==
    LET ds == << Sign(a.nearnessClass - b.nearnessClass),
                 KeyPart(a.rate, b.rate),
                 KeyPart(a.daysToAvailability, b.daysToAvailability),
                 KeyPart(a.effectiveTenorDays, b.effectiveTenorDays) >>
        nz == { n \in 1..4 : ds[n] # 0 }
    IN  IF nz = {} THEN 0 ELSE ds[CHOOSE n \in nz : \A m \in nz : n <= m]

\* the upload places of the rows of a table, in the table's order
Places(rows) == [ n \in DOMAIN rows |-> rows[n].src ]

\* C14: with almWeight = 0 the table ranked by src/apptest.py is in the order of
\* the stable four-key ranking (nearnessClass, rate, daysToAvailability,
\* effectiveTenorDays) of the working table, whatever the mismatch figures are.
C14_ZeroWeightIsNonAlm ==
    (variant = "py" /\ almWeight = 0 /\ Ranked) =>
      Places(out) = Places(StableOrder(df, NonAlmCmp))

\* C14 witness: weight 0, an outflow in the bucket of the dearer line, and the
\* cheaper line of the other bucket is ranked first
C14_Witness ==
    /\ variant = "py" /\ almWeight = 0 /\ Ranked
    /\ Len(out) = 2
    /\ Mismatch(out[1]) = 0 /\ Mismatch(out[2]) > 0
    /\ out[1].nearnessClass = out[2].nearnessClass
    /\ out[1].rate.n < out[2].rate.n
    /\ out[1].src = 2

\* the acquired table has no rows or no columns
EmptyInput == sheetRows = << >> \/ cols = << >>

\* C15: a table without rows or without columns ends the run in a reported
\* empty-input error, which is not the report of missing required columns; the
\* run does not derive or rank, and shows neither a table nor a plan.
C15_EmptyInputError ==
    EmptyInput =>
      /\ pc \in {"acquired", "mapped", "stopped"}
      /\ df = << >> /\ out = << >>
      /\ shown \notin {"table", "error"}
      /\ pc = "stopped" => shown = "empty input"

\* the rows of the shown table that carry a 'Remaining After Pick' value
WithRemaining == { n \in DOMAIN out : out[n].remainingAfter.k = "num" }

\* C16: when the packing walk has passed every row of a table that has rows and
\* the target is not met, the last 'Remaining After Pick' value of the table is
\* the unmet amount (target less the picks); when no row was usable that value
\* is the target.
C16_ShortfallObservable ==
    (WalkEnded /\ out # << >> /\ PickSum(out) < targetAmount) =>
      /\ WithRemaining # {}
      /\ LET last == CHOOSE n \in WithRemaining : \A m \in WithRemaining : m <= n
         IN  out[last].remainingAfter = Num(targetAmount - PickSum(out))

\* the calendar day of an instant
DayOf(t) == t \div TicksPerDay

\* C17: the days to availability of a row with a date are the calendar days from
\* the day of the evaluation to the day of the date, at every time of day of
\* the evaluation; a row available on the day of the evaluation has 0 days and
\* is in class 0.
C17_DayGranularity ==
    Ranked =>
      \A n \in DOMAIN out :
        ~NoDate(out[n]) =>
          /\ out[n].daysToAvailability =
               Num(DayOf(out[n].availabilityDate.n) - DayOf(now))
          /\ DayOf(out[n].availabilityDate.n) = DayOf(now) => out[n].nearnessClass = 0

\* the resolver of the running program
Resolve(cs, candidates) ==
    IF variant = "py" THEN smart_pick_col(cs, candidates) ELSE pickCol(cs, candidates)

\* the same columns in every order
Orderings(cs) ==
    { [ k \in DOMAIN cs |-> cs[p[k]] ] :
        p \in { q \in [DOMAIN cs -> DOMAIN cs] :
                  \A a, b \in DOMAIN cs : q[a] = q[b] => a = b } }

\* C18: what a role resolves to is the same for every order of the table's
\* columns: it depends on the candidates and on the set of column names only.
C18_ResolverOrderIndependent ==
    pc = "mapped" =>
      \A cs \in Orderings(GivenCols) :
        /\ Resolve(cs, DATE_CANDIDATES) = colMap.date
        /\ Resolve(cs, ROI_CANDIDATES) = colMap.roi
        /\ Resolve(cs, AMOUNT_CANDIDATES) = colMap.amount
        /\ Resolve(cs, TENOR_CANDIDATES) = colMap.tenor
        /\ Resolve(cs, TYPE_CANDIDATES) = colMap.type

\* round(v) of a number of v / Scale, halves upwards
Round(v) == (2 * v + Scale) \div (2 * Scale)

\* the buckets whose inclusive range holds the whole number d
BucketsOf(d) ==
    { b \in DOMAIN ALM_BUCKETS : ALM_BUCKETS[b].min <= d /\ d <= ALM_BUCKETS[b].max }

\* the 16 ranges run from 0 to 365 * 50 without a gap and without an overlap
Contiguous ==
    /\ Len(ALM_BUCKETS) = 16
    /\ ALM_BUCKETS[1].min = 0
    /\ ALM_BUCKETS[16].max = 365 * 50
    /\ \A b \in DOMAIN ALM_BUCKETS : ALM_BUCKETS[b].min <= ALM_BUCKETS[b].max
    /\ \A b \in 1..15 : ALM_BUCKETS[b + 1].min = ALM_BUCKETS[b].max + 1

\* C19: the bucket ranges are contiguous and disjoint over 0..18250; a row's
\* bucket is the one whose range holds round(effectiveTenorDays); a row whose
\* effective tenor is above 18250 days has no bucket and priority 0.
C19_BucketAssignment ==
    /\ Contiguous
    /\ Ranked =>
         \A n \in DOMAIN out :
           LET d == Round(out[n].effectiveTenorDays.n)
           IN  IF out[n].effectiveTenorDays.n <= (365 * 50) * Scale
               THEN /\ Cardinality(BucketsOf(d)) = 1
                    /\ \A b \in BucketsOf(d) : out[n].almBucket = ALM_BUCKETS[b].label
               ELSE /\ out[n].almBucket \notin ALM_BUCKET_NAMES
                    /\ out[n].almPriority = Num(0)

=============================================================================
